---- MODULE Spec2Model ----
(***************************************************************************)
(* The agentic exploration engine of pd-scout: AgenticAnalyzer             *)
(* (src/src/core/analyzer.ts) driving ToolRegistry (src/unnamed/part_006). *)
(* One engine instance, built by analyzeCommand (src/src/cli/commands/     *)
(* analyze.ts), and one analyze() call; ReplaySpec adds a second analyze() *)
(* on the same instance, RatioSpec configurations that ask for another     *)
(* forcing ratio, ContextSpec a documentation collaborator and calls of    *)
(* the documentation tools.  The model (LLM) and the collaborators are     *)
(* external: their responses are inputs chosen nondeterministically from   *)
(* small sets.                                                             *)
(***************************************************************************)
EXTENDS Integers, Sequences, FiniteSets, TLC

\* Largest config.analysis.maxRounds tried (maxRounds ranges over 1..MaxRounds).
MaxRounds == 2
\* Number of tool calls the model issues in one run, all responses together.
MaxToolCalls == 2

\* config.analysis.tokenBudget values tried: 5 makes the threshold 4, which one
\* response can reach exactly or cross; 100 is never crossed.
TokenBudgets == {5, 100}

\* forceThresholdRatio values a configuration file may ask for, in tenths.
\* ConfigSchema has no such key: the engine never sees the value.
RatiosAsked == {5, 8}
\* the ratio written in explorationLoop(), in tenths
DefaultRatio == 8

\* response.usage blocks the provider returns.
UsageBlocks ==
    { [prompt_tokens |-> 3, completion_tokens |-> 1, total_tokens |-> 4],
      [prompt_tokens |-> 3, completion_tokens |-> 2, total_tokens |-> 5] }
NoUsageBlock == [prompt_tokens |-> 0, completion_tokens |-> 0, total_tokens |-> 0]

\* JSON values: the parsed arguments of a tool call.
JsonNull == [isNull |-> TRUE, opportunities |-> <<>>, patterns |-> <<>>, summary |-> ""]
PayloadA == [isNull |-> FALSE, opportunities |-> <<"o1">>, patterns |-> <<"p1">>, summary |-> "A"]
PayloadB == [isNull |-> FALSE, opportunities |-> <<>>, patterns |-> <<>>, summary |-> "ok"]

\* <<function.name, function.arguments>> of the tool calls the model sends; the
\* arguments texts are truncated JSON, the JSON literal null, and two objects.
ToolCallShapes ==
    { <<"search_code", "{A}">>,
      <<"bogus", "{A}">>,
      <<"finish_analysis", "{A}">>,
      <<"finish_analysis", "{B}">>,
      <<"finish_analysis", "null">>,
      <<"finish_analysis", "{bad">> }

\* The tool calls of the documentation tools the model sends.
DocTools == {"list_context_docs", "read_context_doc"}
DocShapes == { <<"list_context_docs", "{A}">>, <<"read_context_doc", "{A}">> }

\* Error messages.
ErrNone == "none"
ErrSyntax == "SyntaxError: Unexpected token in JSON"
ErrUnknownTool == "Unknown tool: bogus"
ErrCollaborator == "collaborator raised"
ErrNoContext == "No context handler available"
ErrNoMessage == "No message in response"
ErrRequest == "request failed"
ErrNullResults == "TypeError: Cannot read properties of null (reading 'opportunities')"

ToolLevelErrors == {ErrSyntax, ErrUnknownTool, ErrCollaborator, ErrNoContext}
ProtocolErrors == {ErrNoMessage, ErrRequest}

VARIABLES
    config,           \* the configuration: analysis.maxRounds, analysis.tokenBudget,
                      \* apiKey (is one set), contextHandler (context sources are
                      \* configured), forceThresholdRatio (what the file asks for)
    pc,               \* where the program is: new (before the constructor), idle
                      \* (constructed), awaitModel, tools, awaitForce, returned,
                      \* threw (analyze() raised), exited (the CLI gave up)
    history,          \* AgenticAnalyzer.history
    usage,            \* AgenticAnalyzer.usage
    finishCalled,     \* ToolRegistry.finishCalled
    analysisResults,  \* ToolRegistry.analysisResults
    round,            \* loop variable of explorationLoop
    message,          \* the response message whose tool calls are being executed
    idx,              \* position of the for-of loop in message.tool_calls
    result,           \* what analyze() returned
    requests,         \* the chat.completions.create calls made so far
    issued,           \* tool calls the model has issued so far (gives the call ids)
    forced,           \* the response to the forcing request, once received
    billed,           \* sums of the usage blocks of all responses received in the run
    run,              \* which analyze() call on this instance: 1 or 2
    respLog,          \* what the requests of run 1 were answered, in order
    raiseLog,         \* ids of the tool calls on which the collaborator raised in run 1
    first             \* what run 1 ended with, kept when run 2 starts

vars == <<config, pc, history, usage, finishCalled, analysisResults, round,
          message, idx, result, requests, issued, forced,
          billed, run, respLog, raiseLog, first>>

----------------------------------------------------------------------------
\* Messages

NoId == 0
Msg(role, content, calls, id) ==
    [role |-> role, content |-> content, tool_calls |-> calls, tool_call_id |-> id]

\* content is a sequence of text pieces (a template literal's parts).
SystemMsg == Msg("system", <<"systemPrompt">>, <<>>, NoId)
UserMsg == Msg("user", <<"userPrompt">>, <<>>, NoId)
ForceMsg == Msg("user", <<"call finish_analysis now">>, <<>>, NoId)
AssistantMsg(calls) == Msg("assistant", <<>>, calls, NoId)
NoMessage == Msg("none", <<>>, <<>>, NoId)

\* JSON.stringify(result) of a tool that returned
ResultContent(name) ==
    IF name = "finish_analysis" THEN "{status: Analysis complete}"
    ELSE IF name \in DocTools THEN "[docs]" ELSE "[matches]"
\* `Error: ${error.message}`
ErrorContent(err) == <<"Error: ", err>>

\* the error message loses the call's id
ToolErrorMsgNoId(id, err) == Msg("tool", ErrorContent(err), <<>>, NoId)
\* the catch block of the for-of loop: the error shown to the model
ToolErrorMsg(id, err) == Msg("tool", ErrorContent(err), <<>>, id)
\* the try block of the for-of loop: the tool result shown to the model
ToolResultMsg(id, name) == Msg("tool", <<ResultContent(name)>>, <<>>, id)

ZeroUsage ==
    [totalTokens |-> 0, promptTokens |-> 0, completionTokens |-> 0,
     estimatedCost |-> 0, rounds |-> 0]
NoResult == [status |-> "none", results |-> JsonNull, usage |-> ZeroUsage, error |-> ErrNone]
FailedResults ==
    [isNull |-> FALSE, opportunities |-> <<>>, patterns |-> <<>>, summary |-> "Analysis failed"]

----------------------------------------------------------------------------
\* Pure functions

\* JSON.parse(toolCall.function.arguments)
JSONparse(raw) ==
    CASE raw = "{bad" -> [threw |-> TRUE, value |-> JsonNull]
      [] raw = "null" -> [threw |-> FALSE, value |-> JsonNull]
      [] raw = "{A}"  -> [threw |-> FALSE, value |-> PayloadA]
      [] OTHER        -> [threw |-> FALSE, value |-> PayloadB]

\* an unknown name falls through the switch without throwing
executeUnknownOk(name, args, raises, fin, res) ==
    CASE name = "search_code" ->
            [threw |-> raises, error |-> IF raises THEN ErrCollaborator ELSE ErrNone,
             finishCalled |-> fin, analysisResults |-> res]
      [] name \in DocTools ->
            IF ~config.contextHandler
            THEN [threw |-> TRUE, error |-> ErrNoContext,
                  finishCalled |-> fin, analysisResults |-> res]
            ELSE [threw |-> raises, error |-> IF raises THEN ErrCollaborator ELSE ErrNone,
                  finishCalled |-> fin, analysisResults |-> res]
      [] name = "finish_analysis" ->
            [threw |-> FALSE, error |-> ErrNone,
             finishCalled |-> TRUE, analysisResults |-> args]
      [] OTHER ->
            [threw |-> FALSE, error |-> ErrNone,
             finishCalled |-> fin, analysisResults |-> res]
\* finish_analysis keeps the payload of the first call
executeKeepsFirst(name, args, raises, fin, res) ==
    CASE name = "search_code" ->
            [threw |-> raises, error |-> IF raises THEN ErrCollaborator ELSE ErrNone,
             finishCalled |-> fin, analysisResults |-> res]
      [] name \in DocTools ->
            IF ~config.contextHandler
            THEN [threw |-> TRUE, error |-> ErrNoContext,
                  finishCalled |-> fin, analysisResults |-> res]
            ELSE [threw |-> raises, error |-> IF raises THEN ErrCollaborator ELSE ErrNone,
                  finishCalled |-> fin, analysisResults |-> res]
      [] name = "finish_analysis" ->
            [threw |-> FALSE, error |-> ErrNone,
             finishCalled |-> TRUE, analysisResults |-> IF fin THEN res ELSE args]
      [] OTHER ->
            [threw |-> TRUE, error |-> ErrUnknownTool,
             finishCalled |-> fin, analysisResults |-> res]
\* ToolRegistry.execute(name, args) on registry state <<fin, res>>; `raises` is
\* what the repository or documentation collaborator does when it is invoked.
execute(name, args, raises, fin, res) ==
    CASE name = "search_code" ->
            [threw |-> raises, error |-> IF raises THEN ErrCollaborator ELSE ErrNone,
             finishCalled |-> fin, analysisResults |-> res]
      [] name \in DocTools ->
            IF ~config.contextHandler
            THEN [threw |-> TRUE, error |-> ErrNoContext,
                  finishCalled |-> fin, analysisResults |-> res]
            ELSE [threw |-> raises, error |-> IF raises THEN ErrCollaborator ELSE ErrNone,
                  finishCalled |-> fin, analysisResults |-> res]
      [] name = "finish_analysis" ->
            [threw |-> FALSE, error |-> ErrNone,
             finishCalled |-> TRUE, analysisResults |-> args]
      [] OTHER ->
            [threw |-> TRUE, error |-> ErrUnknownTool,
             finishCalled |-> fin, analysisResults |-> res]

\* the comparison is not strict
IsOverThresholdInclusive(total, budget) == 10 * total >= 8 * budget
\* the check compares with the whole budget
IsOverBudget(total, budget) == total > budget
\* this.usage.totalTokens > this.config.analysis.tokenBudget * 0.8
IsOverThreshold(total, budget) == 10 * total > 8 * budget

\* the loop runs two rounds too many
LoopConditionLate(r, maxRounds) == r <= maxRounds + 1
\* round < this.config.analysis.maxRounds
LoopCondition(r, maxRounds) == r < maxRounds

\* calculateCost, in units of 10^-5 USD: (p/1000)*0.01 + (c/1000)*0.03
calculateCost(u) == u.promptTokens * 1 + u.completionTokens * 3

----------------------------------------------------------------------------
\* The engine's steps as functions of the state record s

Self ==
    [pc |-> pc, history |-> history, usage |-> usage, finishCalled |-> finishCalled,
     analysisResults |-> analysisResults, round |-> round, message |-> message,
     idx |-> idx, result |-> result, requests |-> requests, issued |-> issued,
     forced |-> forced]

\* the documentation tools are offered whether or not a handler exists
getDefinitionsAlways ==
    <<"list_files", "read_files", "search_code", "get_dependencies", "finish_analysis">>
        \o <<"list_context_docs", "read_context_doc">>
\* ToolRegistry.getDefinitions(): the names of the tools offered
getDefinitions ==
    <<"list_files", "read_files", "search_code", "get_dependencies", "finish_analysis">>
        \o (IF config.contextHandler
            THEN <<"list_context_docs", "read_context_doc">> ELSE <<>>)

\* the request is built from a copy of the history without the tool results
SendRequestNoToolResults(s, choice) ==
    [s EXCEPT !.requests =
        Append(@, [tool_choice |-> choice, tools |-> getDefinitions,
                   messages |-> SelectSeq(s.history, LAMBDA m : m.role # "tool")])]
\* this.client.chat.completions.create({messages: this.history, tools, tool_choice})
SendRequest(s, choice) ==
    [s EXCEPT !.requests = Append(@, [tool_choice |-> choice, tools |-> getDefinitions,
                                      messages |-> s.history])]

\* the catch block builds the error result with fresh usage
CatchZeroUsage(s, err) ==
    [s EXCEPT !.pc = "returned",
              !.result = [status |-> "error", results |-> FailedResults,
                          usage |-> ZeroUsage, error |-> err]]
\* analyze() without its catch block: the error escapes to the caller
CatchRethrows(s, err) == [s EXCEPT !.pc = "threw"]
\* analyze(): the catch block, which returns the error result
Catch(s, err) ==
    [s EXCEPT !.pc = "returned",
              !.result = [status |-> "error", results |-> FailedResults,
                          usage |-> s.usage, error |-> err]]

\* the result is built outside the try block: the TypeError escapes
AnalyzeTailOutsideTry(s) ==
    IF s.analysisResults.isNull
    THEN [s EXCEPT !.pc = "threw"]
    ELSE [s EXCEPT !.pc = "returned",
                   !.result = [status |-> "complete", results |-> s.analysisResults,
                               usage |-> s.usage, error |-> ErrNone]]
\* analyze(): after explorationLoop() returned, build the result from
\* this.tools.getResults(); reading .opportunities of null raises a TypeError
AnalyzeTail(s) ==
    IF s.analysisResults.isNull
    THEN Catch(s, ErrNullResults)
    ELSE [s EXCEPT !.pc = "returned",
                   !.result = [status |-> "complete", results |-> s.analysisResults,
                               usage |-> s.usage, error |-> ErrNone]]

\* the history is cut back to the prompts before the instruction is pushed
ForceCompletionTruncates(s) ==
    [SendRequest([s EXCEPT !.history = <<SystemMsg, UserMsg, ForceMsg>>], "finish_analysis")
        EXCEPT !.pc = "awaitForce"]
\* the forcing round advances the round counter as the exploring rounds do
ForceCompletionCountsRound(s) ==
    [SendRequest([s EXCEPT !.history = Append(@, ForceMsg),
                           !.usage.rounds = @ + 1], "finish_analysis")
        EXCEPT !.pc = "awaitForce"]
\* the forcing request leaves the tool choice open
ForceCompletionAuto(s) ==
    [SendRequest([s EXCEPT !.history = Append(@, ForceMsg)], "auto")
        EXCEPT !.pc = "awaitForce"]
\* forceCompletion(), up to the await of the forcing request
ForceCompletion(s) ==
    [SendRequest([s EXCEPT !.history = Append(@, ForceMsg)], "finish_analysis")
        EXCEPT !.pc = "awaitForce"]

\* explorationLoop(): the loop head with loop variable r, up to the await of
\* the round's request; after the loop, forceCompletion()
LoopHead(s, r) ==
    IF LoopCondition(r, config.maxRounds)
    THEN [SendRequest([s EXCEPT !.round = r, !.usage.rounds = r + 1], "auto")
            EXCEPT !.pc = "awaitModel"]
    ELSE ForceCompletion(s)

\* explorationLoop(): the checks after the tool calls of a round
EndOfRound(s) ==
    IF s.finishCalled THEN AnalyzeTail(s)
    ELSE IF IsOverThreshold(s.usage.totalTokens, config.tokenBudget)
         THEN ForceCompletion(s)
         ELSE LoopHead(s, s.round + 1)

\* the totals are added to and the cost is left as it was
RecordUsageStaleCost(u, resp) ==
    IF resp.hasUsage
    THEN [u EXCEPT !.totalTokens = @ + resp.usage.total_tokens,
                   !.promptTokens = @ + resp.usage.prompt_tokens,
                   !.completionTokens = @ + resp.usage.completion_tokens]
    ELSE u
\* the completion tokens are not added
RecordUsageNoCompletion(u, resp) ==
    IF resp.hasUsage
    THEN LET v == [u EXCEPT !.totalTokens = @ + resp.usage.total_tokens,
                            !.promptTokens = @ + resp.usage.prompt_tokens]
         IN  [v EXCEPT !.estimatedCost = calculateCost(v)]
    ELSE u
\* the totals are assigned, not added to
RecordUsageAssign(u, resp) ==
    IF resp.hasUsage
    THEN LET v == [u EXCEPT !.totalTokens = resp.usage.total_tokens,
                            !.promptTokens = resp.usage.prompt_tokens,
                            !.completionTokens = resp.usage.completion_tokens]
         IN  [v EXCEPT !.estimatedCost = calculateCost(v)]
    ELSE u
\* explorationLoop(): track token usage
RecordUsage(u, resp) ==
    IF resp.hasUsage
    THEN LET v == [u EXCEPT !.totalTokens = @ + resp.usage.total_tokens,
                            !.promptTokens = @ + resp.usage.prompt_tokens,
                            !.completionTokens = @ + resp.usage.completion_tokens]
         IN  [v EXCEPT !.estimatedCost = calculateCost(v)]
    ELSE u

\* past the threshold the instruction is pushed as soon as the response is
\* in, before its tool calls are executed
OnResponseWarnsEarly(s, resp) ==
    LET s1 == [s EXCEPT !.usage = RecordUsage(s.usage, resp),
                        !.issued = @ + Len(resp.message.tool_calls)]
    IN  IF ~resp.hasMessage
        THEN Catch(s1, ErrNoMessage)
        ELSE LET s2 == [s1 EXCEPT !.history =
                            IF IsOverThreshold(s1.usage.totalTokens, config.tokenBudget)
                            THEN Append(Append(@, resp.message), ForceMsg)
                            ELSE Append(@, resp.message)]
             IN  IF Len(resp.message.tool_calls) > 0
                 THEN [s2 EXCEPT !.pc = "tools", !.message = resp.message, !.idx = 1]
                 ELSE EndOfRound(s2)
\* a response without tool calls is taken for the end of the exploration
OnResponseStopsOnText(s, resp) ==
    LET s1 == [s EXCEPT !.usage = RecordUsage(s.usage, resp),
                        !.issued = @ + Len(resp.message.tool_calls)]
    IN  IF ~resp.hasMessage
        THEN Catch(s1, ErrNoMessage)
        ELSE LET s2 == [s1 EXCEPT !.history = Append(@, resp.message)]
             IN  IF Len(resp.message.tool_calls) > 0
                 THEN [s2 EXCEPT !.pc = "tools", !.message = resp.message, !.idx = 1]
                 ELSE AnalyzeTail(s2)
\* explorationLoop(): from the response of a round to the first tool call
OnResponse(s, resp) ==
    LET s1 == [s EXCEPT !.usage = RecordUsage(s.usage, resp),
                        !.issued = @ + Len(resp.message.tool_calls)]
    IN  IF ~resp.hasMessage
        THEN Catch(s1, ErrNoMessage)
        ELSE LET s2 == [s1 EXCEPT !.history = Append(@, resp.message)]
             IN  IF Len(resp.message.tool_calls) > 0
                 THEN [s2 EXCEPT !.pc = "tools", !.message = resp.message, !.idx = 1]
                 ELSE EndOfRound(s2)

\* an empty catch block: a failed call leaves no message
ToolCallBodySilent(s, toolCall, raises) ==
    LET parsed == JSONparse(toolCall.arguments)
        ex == execute(toolCall.name, parsed.value, raises, s.finishCalled, s.analysisResults)
    IN  IF parsed.threw \/ ex.threw
        THEN s
        ELSE [s EXCEPT !.history = Append(@, ToolResultMsg(toolCall.id, toolCall.name)),
                       !.finishCalled = ex.finishCalled,
                       !.analysisResults = ex.analysisResults]
\* the catch block also clears the finish signal and the payload
ToolCallBodyResets(s, toolCall, raises) ==
    LET parsed == JSONparse(toolCall.arguments)
        ex == execute(toolCall.name, parsed.value, raises, s.finishCalled, s.analysisResults)
    IN  IF parsed.threw
        THEN [s EXCEPT !.history = Append(@, ToolErrorMsg(toolCall.id, ErrSyntax)),
                       !.finishCalled = FALSE,
                       !.analysisResults = JsonNull]
        ELSE IF ex.threw
        THEN [s EXCEPT !.history = Append(@, ToolErrorMsg(toolCall.id, ex.error)),
                       !.finishCalled = FALSE,
                       !.analysisResults = JsonNull]
        ELSE [s EXCEPT !.history = Append(@, ToolResultMsg(toolCall.id, toolCall.name)),
                       !.finishCalled = ex.finishCalled,
                       !.analysisResults = ex.analysisResults]
\* the result is pushed before execute() is awaited: a failed call leaves a
\* result and an error message
ToolCallBodyBoth(s, toolCall, raises) ==
    LET parsed == JSONparse(toolCall.arguments)
        ex == execute(toolCall.name, parsed.value, raises, s.finishCalled, s.analysisResults)
    IN  IF parsed.threw
        THEN [s EXCEPT !.history = Append(@, ToolErrorMsg(toolCall.id, ErrSyntax))]
        ELSE IF ex.threw
        THEN [s EXCEPT !.history = Append(Append(@, ToolResultMsg(toolCall.id, toolCall.name)),
                                          ToolErrorMsg(toolCall.id, ex.error)),
                       !.finishCalled = ex.finishCalled,
                       !.analysisResults = ex.analysisResults]
        ELSE [s EXCEPT !.history = Append(@, ToolResultMsg(toolCall.id, toolCall.name)),
                       !.finishCalled = ex.finishCalled,
                       !.analysisResults = ex.analysisResults]
\* explorationLoop(): the body of the for-of loop for one tool call, try and catch
ToolCallBody(s, toolCall, raises) ==
    LET parsed == JSONparse(toolCall.arguments)
        ex == execute(toolCall.name, parsed.value, raises, s.finishCalled, s.analysisResults)
    IN  IF parsed.threw
        THEN [s EXCEPT !.history = Append(@, ToolErrorMsg(toolCall.id, ErrSyntax))]
        ELSE IF ex.threw
        THEN [s EXCEPT !.history = Append(@, ToolErrorMsg(toolCall.id, ex.error)),
                       !.finishCalled = ex.finishCalled,
                       !.analysisResults = ex.analysisResults]
        ELSE [s EXCEPT !.history = Append(@, ToolResultMsg(toolCall.id, toolCall.name)),
                       !.finishCalled = ex.finishCalled,
                       !.analysisResults = ex.analysisResults]

\* the checks after the loop run after each call: the next request leaves
\* while the later calls of the response are still to be executed
OnToolCallEager(s, raises) ==
    LET s1 == ToolCallBody(s, s.message.tool_calls[s.idx], raises)
    IN  EndOfRound([s1 EXCEPT !.message = NoMessage, !.idx = 0])
\* the calls are taken from the end of the response
OnToolCallLastFirst(s, raises) ==
    LET n == Len(s.message.tool_calls)
        s1 == ToolCallBody(s, s.message.tool_calls[n - s.idx + 1], raises)
    IN  IF s.idx < n
        THEN [s1 EXCEPT !.idx = s.idx + 1]
        ELSE EndOfRound([s1 EXCEPT !.message = NoMessage, !.idx = 0])
\* explorationLoop(): one iteration of the for-of loop, then the next iteration
\* or the checks after the loop
OnToolCall(s, raises) ==
    LET s1 == ToolCallBody(s, s.message.tool_calls[s.idx], raises)
    IN  IF s.idx < Len(s.message.tool_calls)
        THEN [s1 EXCEPT !.idx = s.idx + 1]
        ELSE EndOfRound([s1 EXCEPT !.message = NoMessage, !.idx = 0])

\* forceCompletion(): the for-of loop over the forcing response's tool calls
\* from position i; nothing is caught here
RECURSIVE ForcedCalls(_, _, _, _)
ForcedCalls(s, calls, i, raises) ==
    IF i > Len(calls) THEN AnalyzeTail(s)
    ELSE LET parsed == JSONparse(calls[i].arguments)
             ex == execute(calls[i].name, parsed.value, raises[i],
                           s.finishCalled, s.analysisResults)
         IN  IF parsed.threw THEN Catch(s, ErrSyntax)
             ELSE IF ex.threw THEN Catch(s, ex.error)
             ELSE ForcedCalls([s EXCEPT !.finishCalled = ex.finishCalled,
                                        !.analysisResults = ex.analysisResults],
                              calls, i + 1, raises)

\* forceCompletion(): from the forcing response to the return of analyze()
OnForceResponse(s, resp, raises) ==
    LET s1 == [s EXCEPT !.forced = [received |-> TRUE, response |-> resp],
                        !.issued = @ + Len(resp.message.tool_calls)]
    IN  IF resp.hasMessage
        THEN ForcedCalls(s1, resp.message.tool_calls, 1, raises)
        ELSE AnalyzeTail(s1)

\* the prompts are pushed onto the history the instance already holds
StartAnalyzeAppends(s) ==
    LoopHead([s EXCEPT !.history = @ \o <<SystemMsg, UserMsg>>], 0)
\* analyze(): seed the history and enter explorationLoop()
StartAnalyze(s) ==
    LoopHead([s EXCEPT !.history = <<SystemMsg, UserMsg>>], 0)

----------------------------------------------------------------------------
\* What the model can answer

MkCalls(shapes, base) ==
    [i \in 1..Len(shapes) |->
        [id |-> base + i, name |-> shapes[i][1], arguments |-> shapes[i][2]]]

ToolCallSeqs(base) ==
    { MkCalls(sh, base) :
        sh \in UNION { [1..k -> ToolCallShapes] : k \in 0..(MaxToolCalls - base) } }

Responses(base) ==
    { [hasUsage |-> hu, usage |-> u, hasMessage |-> TRUE, message |-> AssistantMsg(c)] :
        hu \in {TRUE}, u \in UsageBlocks, c \in ToolCallSeqs(base) }
    \cup
    { [hasUsage |-> FALSE, usage |-> NoUsageBlock, hasMessage |-> TRUE,
       message |-> AssistantMsg(c)] : c \in ToolCallSeqs(base) }
    \cup
    { [hasUsage |-> TRUE, usage |-> u, hasMessage |-> FALSE, message |-> NoMessage] :
        u \in UsageBlocks }

NoResponse ==
    [hasUsage |-> FALSE, usage |-> NoUsageBlock, hasMessage |-> FALSE, message |-> NoMessage]

\* responses whose only tool call is one of a documentation tool
DocResponses(base) ==
    { [hasUsage |-> FALSE, usage |-> NoUsageBlock, hasMessage |-> TRUE,
       message |-> AssistantMsg(MkCalls(<<sh>>, base))] :
        sh \in IF base < MaxToolCalls THEN DocShapes ELSE {} }

----------------------------------------------------------------------------
\* The state machine

Apply(s) ==
    /\ pc' = s.pc
    /\ history' = s.history
    /\ usage' = s.usage
    /\ finishCalled' = s.finishCalled
    /\ analysisResults' = s.analysisResults
    /\ round' = s.round
    /\ message' = s.message
    /\ idx' = s.idx
    /\ result' = s.result
    /\ requests' = s.requests
    /\ issued' = s.issued
    /\ forced' = s.forced
    /\ UNCHANGED config

\* a collaborator is invoked for this call: searchCode, or the documentation
\* handler if there is one, reached when the arguments parse
Invokes(tc) ==
    /\ ~JSONparse(tc.arguments).threw
    /\ \/ tc.name = "search_code"
       \/ tc.name \in DocTools /\ config.contextHandler

\* entries of respLog: a response, or the rejection of the request
Answered(resp) == [failed |-> FALSE, response |-> resp]
Rejected == [failed |-> TRUE, response |-> NoResponse]

\* the response's usage block added to the sums
Bill(b, entry) ==
    IF ~entry.failed /\ entry.response.hasUsage
    THEN [prompt_tokens |-> b.prompt_tokens + entry.response.usage.prompt_tokens,
          completion_tokens |-> b.completion_tokens + entry.response.usage.completion_tokens,
          total_tokens |-> b.total_tokens + entry.response.usage.total_tokens]
    ELSE b

\* what the model may answer now: anything in run 1, in run 2 what it answered
\* to the request of the same position in run 1
ResponseInputs ==
    IF run = 1 THEN Responses(issued)
    ELSE IF respLog # <<>> /\ ~respLog[1].failed THEN {respLog[1].response} ELSE {}
RejectInput == run = 1 \/ (respLog # <<>> /\ respLog[1].failed)

\* on which of these calls the collaborator raises: any of those that invoke
\* it in run 1, in run 2 those it raised on in run 1
RaiseInputs(calls) ==
    IF run = 1 THEN SUBSET { i \in DOMAIN calls : Invokes(calls[i]) }
    ELSE { { i \in DOMAIN calls : Invokes(calls[i]) /\ calls[i].id \in raiseLog } }

\* the environment's books after a request was answered
Received(entry) ==
    /\ billed' = Bill(billed, entry)
    /\ respLog' = IF run = 1 THEN Append(respLog, entry) ELSE Tail(respLog)
    /\ UNCHANGED <<run, first>>
Raised(ids) ==
    raiseLog' = IF run = 1 THEN raiseLog \cup ids ELSE raiseLog

NoFirst == [result |-> NoResult, history |-> <<>>, requests |-> <<>>]

\* the state before analyzeCommand builds the engine, for the configurations
\* with these ratios asked for and these choices of context sources
InitFor(ratios, handlers) ==
    /\ config \in [maxRounds : 1..MaxRounds, tokenBudget : TokenBudgets, apiKey : BOOLEAN,
                   forceThresholdRatio : ratios, contextHandler : handlers]
    /\ pc = "new"
    /\ history = <<>>
    /\ usage = ZeroUsage
    /\ finishCalled = FALSE
    /\ analysisResults = JsonNull
    /\ round = 0
    /\ message = NoMessage
    /\ idx = 0
    /\ result = NoResult
    /\ requests = <<>>
    /\ issued = 0
    /\ forced = [received |-> FALSE, response |-> NoResponse]
    /\ billed = NoUsageBlock
    /\ run = 1
    /\ respLog = <<>>
    /\ raiseLog = {}
    /\ first = NoFirst

Init == InitFor({DefaultRatio}, {FALSE})
InitRatio == InitFor(RatiosAsked, {FALSE})
InitContext == InitFor({DefaultRatio}, BOOLEAN)

\* analyzeCommand: new AgenticAnalyzer(...); without an API key the constructor
\* throws, analyzeCommand logs the error and exits with code 1
Construct ==
    /\ pc = "new"
    /\ pc' = IF config.apiKey THEN "idle" ELSE "exited"
    /\ UNCHANGED <<config, history, usage, finishCalled, analysisResults, round,
                   message, idx, result, requests, issued, forced,
                   billed, run, respLog, raiseLog, first>>

\* analyze() is called
Analyze ==
    /\ pc = "idle"
    /\ Apply(StartAnalyze(Self))
    /\ UNCHANGED <<billed, run, respLog, raiseLog, first>>

\* the request of an exploring round returns a response
ModelResponds ==
    /\ pc = "awaitModel"
    /\ \E resp \in ResponseInputs :
         /\ Apply(OnResponse(Self, resp))
         /\ Received(Answered(resp))
    /\ UNCHANGED raiseLog

\* the request of an exploring round is rejected
ModelRequestFails ==
    /\ pc = "awaitModel"
    /\ RejectInput
    /\ Apply(Catch(Self, ErrRequest))
    /\ Received(Rejected)
    /\ UNCHANGED raiseLog

\* the next tool call of the round's response is executed
ToolCall ==
    /\ pc = "tools"
    /\ \E R \in RaiseInputs(<<message.tool_calls[idx]>>) :
         /\ Apply(OnToolCall(Self, R # {}))
         /\ Raised(IF R # {} THEN {message.tool_calls[idx].id} ELSE {})
    /\ UNCHANGED <<billed, run, respLog, first>>

\* the forcing request returns a response
ForceResponds ==
    /\ pc = "awaitForce"
    /\ \E resp \in ResponseInputs :
         \E R \in RaiseInputs(resp.message.tool_calls) :
            /\ Apply(OnForceResponse(Self, resp,
                        [i \in 1..Len(resp.message.tool_calls) |-> i \in R]))
            /\ Received(Answered(resp))
            /\ Raised({ resp.message.tool_calls[i].id : i \in R })

\* the forcing request is rejected
ForceRequestFails ==
    /\ pc = "awaitForce"
    /\ RejectInput
    /\ Apply(Catch(Self, ErrRequest))
    /\ Received(Rejected)
    /\ UNCHANGED raiseLog

\* analyze() is called again on the same instance after it returned: history
\* is seeded anew, this.usage and the ToolRegistry keep what they hold
AnalyzeAgain ==
    /\ pc = "returned"
    /\ run = 1
    /\ run' = 2
    /\ first' = [result |-> result, history |-> history, requests |-> requests]
    /\ billed' = NoUsageBlock
    /\ Apply(StartAnalyze([Self EXCEPT !.result = NoResult, !.requests = <<>>,
                                       !.issued = 0, !.message = NoMessage, !.idx = 0,
                                       !.forced = [received |-> FALSE,
                                                   response |-> NoResponse]]))
    /\ UNCHANGED <<respLog, raiseLog>>

Next ==
    \/ Construct
    \/ Analyze
    \/ ModelResponds
    \/ ModelRequestFails
    \/ ToolCall
    \/ ForceResponds
    \/ ForceRequestFails

NextReplay == Next \/ AnalyzeAgain

\* the request of an exploring round returns a response that calls a
\* documentation tool
ModelRespondsDocs ==
    /\ pc = "awaitModel"
    /\ run = 1
    /\ \E resp \in DocResponses(issued) :
         /\ Apply(OnResponse(Self, resp))
         /\ Received(Answered(resp))
    /\ UNCHANGED raiseLog

NextContext == Next \/ ModelRespondsDocs

Spec == Init /\ [][Next]_vars

\* a second analyze() on the same instance, the model and the collaborator
\* answering it as they answered the first
ReplaySpec == Init /\ [][NextReplay]_vars

\* configuration files that ask for a forcing ratio
RatioSpec == InitRatio /\ [][Next]_vars

\* with or without a documentation collaborator, the model also calling the
\* documentation tools
ContextSpec == InitContext /\ [][NextContext]_vars

\* every model request and every tool execution eventually returns or fails
LiveSpec ==
    /\ Spec
    /\ WF_vars(ModelResponds \/ ModelRequestFails)
    /\ WF_vars(ToolCall)
    /\ WF_vars(ForceResponds \/ ForceRequestFails)

TypeOK ==
    /\ pc \in {"new", "idle", "awaitModel", "tools", "awaitForce", "returned",
              "threw", "exited"}
    /\ run \in {1, 2}
    /\ usage.rounds \in 0..(MaxRounds + 1)
    /\ issued \in 0..MaxToolCalls
    /\ result.status \in {"none", "complete", "incomplete", "error"}

----------------------------------------------------------------------------
\* Vocabulary of the properties

Returned == pc = "returned"
Last(q) == q[Len(q)]

\* positions of the assistant messages, i.e. of the exploring rounds
AssistantAt(h) == { i \in DOMAIN h : h[i].role = "assistant" }
\* positions of the tool results that acknowledge an executed finish_analysis
FinishAckAt(h) ==
    { i \in DOMAIN h : h[i].role = "tool" /\ h[i].content = <<"{status: Analysis complete}">> }
ToolResultAt(h) == { i \in DOMAIN h : h[i].role = "tool" }
IsErrorResult(m) == m.role = "tool" /\ Len(m.content) = 2 /\ m.content[1] = "Error: "

ExploringRequests == { i \in DOMAIN requests : requests[i].tool_choice = "auto" }
ForcingRequests == { i \in DOMAIN requests : requests[i].tool_choice = "finish_analysis" }

\* cumulative tokens t are past 80% of the configured budget
Crossed(t) == 10 * t > 8 * config.tokenBudget

\* a tool call that fails whatever the collaborators do
SurelyFails(tc) ==
    \/ tc.arguments = "{bad"
    \/ tc.name \notin {"search_code", "finish_analysis"} \cup DocTools
    \/ tc.name \in DocTools /\ ~config.contextHandler
\* a finish_analysis call whose arguments parse
IsFinishCall(tc) == tc.name = "finish_analysis" /\ tc.arguments # "{bad"
ParsedPayload(tc) ==
    CASE tc.arguments = "{A}" -> PayloadA
      [] tc.arguments = "{B}" -> PayloadB
      [] OTHER -> JsonNull

\* the step ends an exploring round without a protocol failure
RoundEnds ==
    /\ pc \in {"awaitModel", "tools"}
    /\ pc' # "tools"
    /\ ~(pc' = "returned" /\ result'.error \in ProtocolErrors)

----------------------------------------------------------------------------
\* C1: once analyze() has been called, and provided every model request and
\* every tool execution eventually returns or fails, the run reaches its
\* terminal state and analyze() returns a result.
C1_Terminates ==
    (pc \in {"awaitModel", "tools", "awaitForce"}) ~> (Returned /\ result.status # "none")

\* The same by a variant: the number of steps a run can still take.  Every
\* step of a run decreases it, and a run that has not returned can take a step.
RunVariant ==
    LET perRound == MaxToolCalls + 1
        roundsLeft == config.maxRounds - usage.rounds
    IN  CASE pc = "new" -> 4 + (config.maxRounds + 1) * perRound
          [] pc = "idle" -> 3 + (config.maxRounds + 1) * perRound
          [] pc = "awaitModel" -> 2 + roundsLeft * perRound + perRound
          [] pc = "tools" ->
                2 + roundsLeft * perRound + (Len(message.tool_calls) - idx + 1)
          [] pc = "awaitForce" -> 1
          [] OTHER -> 0
VariantDecreases ==
    /\ [][RunVariant' < RunVariant]_vars
    /\ [](pc \notin {"returned", "exited"} => ENABLED Next)

\* a run that used every exploring round and the forcing round has returned
C1_Witness ==
    /\ Returned
    /\ Len(requests) = config.maxRounds + 1
    /\ result.status # "none"

\* C2: a finish_analysis call dispatched successfully in exploring round k
\* ends the run after round k: k requests were sent, all of them exploring,
\* the result is complete and its usage.rounds is k.
C2_FinishEndsRun ==
    FinishAckAt(history) # {} =>
        LET j == CHOOSE i \in FinishAckAt(history) : \A l \in FinishAckAt(history) : i <= l
            k == Cardinality({ i \in AssistantAt(history) : i < j })
        IN  /\ Len(requests) = k
            /\ ForcingRequests = {}
            /\ pc \in {"tools", "returned"}
            /\ Returned => result.status = "complete" /\ result.usage.rounds = k

\* C3: when the forcing response carries no tool call, the result is
\* incomplete with an empty payload.
C3_ForcedNoToolCallIncomplete ==
    (Returned /\ forced.received /\ Len(forced.response.message.tool_calls) = 0) =>
        /\ result.status = "incomplete"
        /\ result.results.opportunities = <<>>
        /\ result.results.patterns = <<>>

\* C4: usage.rounds never exceeds maxRounds + 1, in the run and in the result.
C4_RoundsBound ==
    /\ usage.rounds <= config.maxRounds + 1
    /\ Returned => result.usage.rounds <= config.maxRounds + 1

\* a run that went through every exploring round and the forcing round
C4_Witness ==
    /\ Returned
    /\ ForcingRequests # {}
    /\ result.usage.rounds = config.maxRounds

\* C5: when an exploring round ends without a finish and with the cumulative
\* tokens past 80% of the budget, the step sends the forcing request, pinned
\* to finish_analysis; after a forcing request no further request is sent.
C5_ThresholdForces ==
    [][ /\ (RoundEnds /\ ~finishCalled' /\ Crossed(usage'.totalTokens)) =>
            /\ pc' = "awaitForce"
            /\ Len(requests') = Len(requests) + 1
            /\ Last(requests').tool_choice = "finish_analysis"
        /\ ForcingRequests # {} => requests' = requests
      ]_vars

\* the threshold was crossed before maxRounds and the forcing request is out
C5_Witness ==
    /\ pc = "awaitForce"
    /\ Crossed(usage.totalTokens)
    /\ usage.rounds < config.maxRounds
    /\ Last(requests).tool_choice = "finish_analysis"

\* C6: without a finish in exploration, a crossed threshold or a protocol
\* failure, the run sends maxRounds exploring requests and then one forcing
\* request; the result is complete if the forcing response carries a valid
\* finish_analysis call and incomplete otherwise.
C6_RoundsExhausted ==
    ( /\ Returned
      /\ FinishAckAt(history) = {}
      /\ ~Crossed(usage.totalTokens)
      /\ result.error \notin ProtocolErrors ) =>
        /\ Len(requests) = config.maxRounds + 1
        /\ ExploringRequests = 1..config.maxRounds
        /\ ForcingRequests = {config.maxRounds + 1}
        /\ result.status =
             IF \E i \in DOMAIN forced.response.message.tool_calls :
                    IsFinishCall(forced.response.message.tool_calls[i])
             THEN "complete" ELSE "incomplete"

\* C7: no run ends with status error because of a tool-level failure
\* (malformed arguments, unknown tool, collaborator raising).
C7_ToolFailuresAbsorbed ==
    (Returned /\ result.status = "error") => result.error \notin ToolLevelErrors

\* C8: a failing tool call of an exploring round gets its error message and
\* does not end the round: the next call of the response is dispatched, and
\* after the last one the finish, threshold and maxRounds checks decide.
C8_FailureKeepsRound ==
    [][ ( /\ pc = "tools"
          /\ \/ SurelyFails(message.tool_calls[idx])
             \/ /\ Len(history') > Len(history)
                /\ IsErrorResult(history'[Len(history) + 1]) ) =>
        /\ Len(history') > Len(history)
        /\ SubSeq(history', 1, Len(history)) = history
        /\ IsErrorResult(history'[Len(history) + 1])
        /\ history'[Len(history) + 1].tool_call_id = message.tool_calls[idx].id
        /\ Cardinality(ToolResultAt(history')) = Cardinality(ToolResultAt(history)) + 1
        /\ finishCalled' = finishCalled
        /\ idx < Len(message.tool_calls) =>
              pc' = "tools" /\ idx' = idx + 1 /\ message' = message
        /\ idx = Len(message.tool_calls) =>
              IF finishCalled
              THEN pc' = "returned" /\ result'.error \notin ToolLevelErrors
              ELSE IF Crossed(usage.totalTokens) \/ usage.rounds >= config.maxRounds
              THEN pc' = "awaitForce"
              ELSE pc' = "awaitModel" /\ usage'.rounds = usage.rounds + 1
      ]_vars

\* a failed call was followed by another call of the same response
C8_Witness ==
    /\ pc = "tools"
    /\ idx = 2
    /\ IsErrorResult(Last(history))

\* C9: executing a search_code call in an exploring round appends exactly one
\* tool-result message with that call's id; when the collaborator raised it
\* carries the error text, the round stays counted, and unless a finish, the
\* threshold or maxRounds stops it the next exploring round is started.
C9_CollaboratorRaise ==
    [][ ( /\ pc = "tools"
          /\ message.tool_calls[idx].name = "search_code"
          /\ message.tool_calls[idx].arguments # "{bad" ) =>
        LET tc == message.tool_calls[idx]
            raised == [role |-> "tool", content |-> <<"Error: ", "collaborator raised">>,
                       tool_calls |-> <<>>, tool_call_id |-> tc.id]
            fine == [role |-> "tool", content |-> <<"[matches]">>,
                     tool_calls |-> <<>>, tool_call_id |-> tc.id]
        IN  /\ Len(history') > Len(history)
            /\ SubSeq(history', 1, Len(history) + 1)
                  \in {Append(history, raised), Append(history, fine)}
            /\ Cardinality(ToolResultAt(history')) = Cardinality(ToolResultAt(history)) + 1
            /\ usage'.rounds >= usage.rounds
            /\ usage.rounds = Cardinality(AssistantAt(history))
            /\ ( /\ idx = Len(message.tool_calls)
                 /\ ~finishCalled
                 /\ ~Crossed(usage.totalTokens)
                 /\ usage.rounds < config.maxRounds ) =>
                    /\ pc' = "awaitModel"
                    /\ usage'.rounds = usage.rounds + 1
                    /\ Len(requests') = Len(requests) + 1
                    /\ Last(requests').tool_choice = "auto"
                    /\ Last(requests').messages = history'
      ]_vars

\* the collaborator raised in round 1 and round 2 has been started
C9_Witness ==
    /\ pc = "awaitModel"
    /\ usage.rounds = 2
    /\ Last(history).content = <<"Error: ", "collaborator raised">>
    /\ Last(history).tool_call_id # NoId

\* C10: when the response that ends the run carries several finish_analysis
\* calls, the result's payload is that of the last one, and the round added
\* 1 + (number of tool calls) messages to the history.
C10_LastFinishWins ==
    Returned =>
        \A a \in AssistantAt(history) :
            LET calls == history[a].tool_calls
                fins == { i \in DOMAIN calls : IsFinishCall(calls[i]) }
            IN  Cardinality(fins) >= 2 =>
                  LET last == CHOOSE i \in fins : \A l \in fins : l <= i
                  IN  /\ result.results = ParsedPayload(calls[last])
                      /\ Len(history) = a + Len(calls)
                      /\ \A i \in DOMAIN calls :
                            /\ history[a + i].role = "tool"
                            /\ history[a + i].tool_call_id = calls[i].id

\* C11: when the request of an exploring round fails or its response has no
\* message, the run ends in that step: no further request is sent, analyze()
\* returns status error with the error detail, and the usage accumulated so
\* far (that response's included) is in the result.
C11_ProtocolFailureAborts ==
    [][ (pc = "awaitModel" /\ history' = history) =>
        /\ pc' = "returned"
        /\ requests' = requests
        /\ result'.status = "error"
        /\ result'.error \in {"No message in response", "request failed"}
        /\ result'.usage = usage'
        /\ usage'.rounds = usage.rounds
        /\ usage'.totalTokens >= usage.totalTokens
        /\ usage'.promptTokens >= usage.promptTokens
        /\ usage'.completionTokens >= usage.completionTokens
      ]_vars

\* round 2 got a response without message after round 1 had used tokens
C11_Witness ==
    /\ Returned
    /\ result.error = "No message in response"
    /\ result.usage.rounds = 2
    /\ result.usage.totalTokens > 5
    /\ Len(requests) = 2

\* C12: analyze() never lets an exception escape; what it returns has a
\* status among complete, incomplete and error, an error text exactly when
\* the status is error, the engine's usage and an object as payload.
C12_AlwaysAResult ==
    /\ pc # "threw"
    /\ Returned =>
         /\ result.status \in {"complete", "incomplete", "error"}
         /\ (result.status = "error") <=> (result.error # "none")
         /\ result.usage = usage
         /\ ~result.results.isNull

\* a run that ended on the TypeError of the null results has returned
C12_Witness ==
    /\ Returned
    /\ result.status = "error"
    /\ analysisResults.isNull
    /\ forced.received

\* C14: a run has at most one forcing request and it is the last request; its
\* messages end with the one instruction message, added to what the previous
\* request had seen; it pins tool choice to finish_analysis while the
\* exploring requests use auto; a run sends at most maxRounds + 1 requests.
IsInstruction(m) == m.role = "user" /\ m.content = <<"call finish_analysis now">>
InstructionAt(h) == { i \in DOMAIN h : IsInstruction(h[i]) }
C14_OneForcingRound ==
    /\ Cardinality(ForcingRequests) <= 1
    /\ Len(requests) <= config.maxRounds + 1
    /\ ExploringRequests \cup ForcingRequests = DOMAIN requests
    /\ Cardinality(InstructionAt(history)) = Cardinality(ForcingRequests)
    /\ pc = "awaitForce" => ForcingRequests # {}
    /\ \A i \in ExploringRequests : InstructionAt(requests[i].messages) = {}
    /\ \A i \in ForcingRequests :
         LET m == requests[i].messages
         IN  /\ i = Len(requests)
             /\ i > 1
             /\ InstructionAt(m) = {Len(m)}
             /\ Len(requests[i - 1].messages) < Len(m)
             /\ SubSeq(m, 1, Len(requests[i - 1].messages)) = requests[i - 1].messages
             /\ m = history

\* the threshold was crossed in round maxRounds and the forcing request is out
C14_Witness ==
    /\ pc = "awaitForce"
    /\ Crossed(usage.totalTokens)
    /\ usage.rounds = config.maxRounds
    /\ Len(requests) = config.maxRounds + 1
    /\ Last(requests).tool_choice = "finish_analysis"

\* C15: the token totals never decrease.
C15_TotalsMonotone ==
    [][ /\ usage'.totalTokens >= usage.totalTokens
        /\ usage'.promptTokens >= usage.promptTokens
        /\ usage'.completionTokens >= usage.completionTokens
      ]_vars

\* two responses with usage have been added up
C15_Witness ==
    /\ usage.rounds = 2
    /\ usage.totalTokens = 9
    /\ usage.promptTokens = 6
    /\ usage.completionTokens = 3


----------------------------------------------------------------------------
\* C13: with no credential configured no model request is ever sent and the
\* run ends in an error-status result whose usage is all zero.
\* The code throws in the constructor of AgenticAnalyzer; analyzeCommand
\* catches, logs and exits: no request is sent, and no result exists either.
C13_MissingCredential ==
    ~config.apiKey =>
        /\ requests = <<>>
        /\ pc # "new" => (result.status = "error" /\ result.usage = ZeroUsage)

----------------------------------------------------------------------------
\* C16: every run starts fresh, a second analyze() on the same instance
\* included: at the first request of a run the history is the system and the
\* user prompt, the token totals are zero, the round counter counts this
\* request only and no finish signal or payload of an earlier run is visible.
\* The code seeds this.history only; this.usage and the ToolRegistry keep
\* what the first run left.
C16_RunStartsFresh ==
    (pc = "awaitModel" /\ Len(requests) = 1) =>
        /\ history = <<SystemMsg, UserMsg>>
        /\ requests[1].messages = <<SystemMsg, UserMsg>>
        /\ usage.totalTokens = 0 /\ usage.promptTokens = 0 /\ usage.completionTokens = 0
        /\ usage.rounds = 1
        /\ ~finishCalled
        /\ analysisResults.isNull

----------------------------------------------------------------------------
\* C17: the engine is deterministic: two runs with the same configuration
\* that get the same responses and the same tool outcomes issue the same
\* number of requests and end with the same rounds, totals, history and status.
\* Run 2 is run 1 again on the same instance and is answered as run 1 was.
C17_Deterministic ==
    (run = 2 /\ Returned) =>
        /\ Len(requests) = Len(first.requests)
        /\ result.usage.rounds = first.result.usage.rounds
        /\ result.usage.totalTokens = first.result.usage.totalTokens
        /\ result.usage.promptTokens = first.result.usage.promptTokens
        /\ result.usage.completionTokens = first.result.usage.completionTokens
        /\ history = first.history
        /\ result.status = first.result.status

----------------------------------------------------------------------------
\* C18: every accepted finish_analysis call, of an exploring round or of the
\* forcing round, is acknowledged: when the run ends the history holds the
\* assistant message that carries the call and a tool result with the call's id.
\* forceCompletion() executes the calls of the forcing response and appends
\* nothing to the history.
Acknowledged(h, tc) ==
    \E i \in AssistantAt(h) :
        /\ \E k \in DOMAIN h[i].tool_calls : h[i].tool_calls[k] = tc
        /\ \E j \in ToolResultAt(h) : j > i /\ h[j].tool_call_id = tc.id
C18_FinishAcknowledged ==
    Returned =>
        /\ \A i \in AssistantAt(history) : \A k \in DOMAIN history[i].tool_calls :
              IsFinishCall(history[i].tool_calls[k]) =>
                  Acknowledged(history, history[i].tool_calls[k])
        /\ (forced.received /\ forced.response.hasMessage
              /\ forced.response.message.tool_calls # <<>>
              /\ IsFinishCall(forced.response.message.tool_calls[1]))
            => Acknowledged(history, forced.response.message.tool_calls[1])

----------------------------------------------------------------------------
\* C19: the round counter advances once per round, the forcing round
\* included: usage.rounds is the number of model requests issued so far.
\* forceCompletion() sends its request without touching usage.rounds.
C19_RoundsCountRequests ==
    usage.rounds = Len(requests)

----------------------------------------------------------------------------
\* C20: the usage of every response, the forcing response included, is added
\* to the totals: when the run ends the totals are the sums over all the
\* responses the run received.
\* forceCompletion() never reads response.usage.
C20_AllUsageCounted ==
    Returned =>
        /\ result.usage.totalTokens = billed.total_tokens
        /\ result.usage.promptTokens = billed.prompt_tokens
        /\ result.usage.completionTokens = billed.completion_tokens


----------------------------------------------------------------------------
\* C21: when an exploring round ends with a finish observed and the token
\* threshold is crossed as well, or the round is round maxRounds, the finish
\* wins: the run ends with status complete and no forcing request is sent.
\* isFinished() is tested first and no request follows, but a finish whose
\* arguments are the JSON literal null ends the run with status error.
C21_FinishPrecedes ==
    [][ ( /\ RoundEnds
          /\ finishCalled'
          /\ (Crossed(usage'.totalTokens) \/ usage.rounds = config.maxRounds) ) =>
            /\ pc' = "returned"
            /\ requests' = requests
            /\ result'.status = "complete"
      ]_vars

----------------------------------------------------------------------------
\* C22: when a finish_analysis call is followed by further tool calls in the
\* same response, the later calls are still dispatched in order and each gets
\* its tool result before the run ends; no further round is started and the
\* finish outcome is not lost, whatever the later calls do.
\* Every call of the batch is dispatched and acknowledged and no request
\* follows, but the run ends in status error when the payload left by the
\* batch is the JSON literal null.
C22_FinishThenMoreCalls ==
    [][ ( /\ pc = "tools"
          /\ idx = Len(message.tool_calls)
          /\ \E k \in 1..(idx - 1) : IsFinishCall(message.tool_calls[k]) ) =>
            LET n == Len(message.tool_calls)
            IN  /\ Len(history') = Len(history) + 1
                /\ \A k \in 1..n :
                      /\ history'[Len(history') - n + k].role = "tool"
                      /\ history'[Len(history') - n + k].tool_call_id
                            = message.tool_calls[k].id
                /\ requests' = requests
                /\ pc' = "returned"
                /\ finishCalled'
                /\ result'.status = "complete"
      ]_vars

----------------------------------------------------------------------------
\* C23: a tool call whose arguments do not parse is not executed, in an
\* exploring round or in the forcing round: the finish signal and the payload
\* stay as they were and the failure is shown to the model as the call's
\* tool-result message.
\* In explorationLoop() the SyntaxError is caught and becomes the tool result;
\* in forceCompletion() it is not caught there: the run ends with status error
\* and no message for the call.
C23_MalformedNotExecuted ==
    [][ /\ (pc = "tools" /\ message.tool_calls[idx].arguments = "{bad") =>
              /\ history'[Len(history) + 1]
                    = ToolErrorMsg(message.tool_calls[idx].id, ErrSyntax)
              /\ finishCalled' = finishCalled
              /\ analysisResults' = analysisResults
              /\ raiseLog' = raiseLog
        /\ ( /\ pc = "awaitForce"
             /\ forced'.received
             /\ forced'.response.message.tool_calls # <<>>
             /\ forced'.response.message.tool_calls[1].arguments = "{bad" ) =>
              /\ finishCalled' = finishCalled
              /\ analysisResults' = analysisResults
              /\ raiseLog' = raiseLog
              /\ \E j \in ToolResultAt(history') :
                    /\ history'[j].tool_call_id = forced'.response.message.tool_calls[1].id
                    /\ IsErrorResult(history'[j])
      ]_vars


----------------------------------------------------------------------------
\* C24: a tool call with an unrecognised name invokes no collaborator, leaves
\* the finish signal and the payload untouched and gets the error text
\* "Unknown tool" as its tool-result message; the round goes on with the next
\* tool call of the response.
KnownTools == {"search_code", "finish_analysis"} \cup DocTools
C24_UnknownToolFails ==
    [][ (pc = "tools" /\ message.tool_calls[idx].name \notin KnownTools) =>
            /\ history'[Len(history) + 1]
                  = ToolErrorMsg(message.tool_calls[idx].id, ErrUnknownTool)
            /\ finishCalled' = finishCalled
            /\ analysisResults' = analysisResults
            /\ raiseLog' = raiseLog
            /\ idx < Len(message.tool_calls) =>
                  /\ pc' = "tools"
                  /\ idx' = idx + 1
                  /\ message' = message
                  /\ Len(history') = Len(history) + 1
      ]_vars

\* the call after an unknown tool is about to be executed
C24_Witness ==
    /\ pc = "tools"
    /\ idx = 2
    /\ message.tool_calls[1].name \notin KnownTools
    /\ Last(history) = ToolErrorMsg(message.tool_calls[1].id, ErrUnknownTool)

----------------------------------------------------------------------------
\* C25: every tool call of an exploring response is dispatched once and has
\* exactly one tool-result message, the success payload or the error text:
\* the messages after an assistant message are the results of its calls, one
\* per call, and no other tool-result message exists.
\* the calls of the assistant message at position i that have been dispatched
Dispatched(i) ==
    IF pc = "tools" /\ \A j \in AssistantAt(history) : j <= i
    THEN idx - 1
    ELSE Len(history[i].tool_calls)
C25_OneResultPerCall ==
    /\ \A i \in AssistantAt(history) :
          /\ \A k \in 1..Dispatched(i) :
                /\ i + k \in ToolResultAt(history)
                /\ history[i + k].tool_call_id = history[i].tool_calls[k].id
                /\ \/ IsErrorResult(history[i + k])
                   \/ history[i + k].content
                        = <<ResultContent(history[i].tool_calls[k].name)>>
          /\ i + Dispatched(i) + 1 \notin ToolResultAt(history)
    /\ \A j \in ToolResultAt(history) :
          Cardinality({ l \in ToolResultAt(history) :
                          history[l].tool_call_id = history[j].tool_call_id }) = 1
    /\ \A j \in ToolResultAt(history) :
          \E i \in AssistantAt(history) : i < j /\ j <= i + Dispatched(i)

\* a response with one call that succeeded and one that failed, both answered
C25_Witness ==
    /\ Returned
    /\ \E i \in AssistantAt(history) :
          /\ Len(history[i].tool_calls) = 2
          /\ ~IsErrorResult(history[i + 1])
          /\ IsErrorResult(history[i + 2])
          /\ history[i + 2].content[2] = ErrCollaborator

----------------------------------------------------------------------------
\* C26: a result with status complete carries exactly the parsed arguments of
\* the last finish_analysis call accepted in the run, in an exploring round
\* or in the forcing round; no other call and no response without a call
\* changes it.
\* the tool calls of the run in the order they were dispatched
RECURSIVE CallsOf(_, _)
CallsOf(h, i) ==
    IF i > Len(h) THEN <<>>
    ELSE (IF h[i].role = "assistant" THEN h[i].tool_calls ELSE <<>>) \o CallsOf(h, i + 1)
AllCalls ==
    CallsOf(history, 1) \o
        (IF forced.received /\ forced.response.hasMessage
         THEN forced.response.message.tool_calls ELSE <<>>)
C26_PayloadIsLastFinish ==
    (Returned /\ result.status = "complete") =>
        LET fin == { k \in DOMAIN AllCalls : IsFinishCall(AllCalls[k]) }
        IN  /\ fin # {}
            /\ LET last == CHOOSE k \in fin : \A l \in fin : l <= k
               IN  result.results = ParsedPayload(AllCalls[last])

\* two accepted finish calls with different payloads, the second one returned
C26_Witness ==
    /\ Returned
    /\ result.status = "complete"
    /\ result.results = PayloadB
    /\ \E k \in DOMAIN AllCalls : AllCalls[k].name = "finish_analysis"
                                    /\ AllCalls[k].arguments = "{A}"


----------------------------------------------------------------------------
\* C27: the messages of every model request are the whole history at that
\* moment, in order: after the messages of the previous request come the
\* assistant message of the round just finished and the tool result of each
\* of its tool calls, and for the forcing request the instruction.
IsPrefix(p, q) == Len(p) <= Len(q) /\ SubSeq(q, 1, Len(p)) = p
C27_RequestsCarryHistory ==
    /\ pc \in {"awaitModel", "awaitForce"} => Last(requests).messages = history
    /\ requests # <<>> => IsPrefix(Last(requests).messages, history)
    /\ \A i \in 2..Len(requests) :
          LET prev == requests[i - 1].messages
              m == requests[i].messages
              a == m[Len(prev) + 1]
              n == Len(a.tool_calls)
              forcing == requests[i].tool_choice = "finish_analysis"
          IN  /\ IsPrefix(prev, m)
              /\ Len(m) = Len(prev) + 1 + n + (IF forcing THEN 1 ELSE 0)
              /\ a.role = "assistant"
              /\ \A k \in 1..n :
                    /\ m[Len(prev) + 1 + k].role = "tool"
                    /\ m[Len(prev) + 1 + k].tool_call_id = a.tool_calls[k].id
              /\ forcing => Last(m) = ForceMsg

\* the request of round 2 is out and carries the two tool results of round 1
C27_Witness ==
    /\ pc = "awaitModel"
    /\ Len(requests) = 2
    /\ Cardinality(ToolResultAt(Last(requests).messages)) = 2

----------------------------------------------------------------------------
\* C28: within a run the history is append-only: every step of the run
\* leaves the messages it found where they were and as they were.
C28_HistoryAppendOnly ==
    [][ (pc \in {"awaitModel", "tools", "awaitForce"}) => IsPrefix(history, history') ]_vars

\* a run that appended in two exploring rounds and in the forcing round
C28_Witness ==
    /\ Returned
    /\ InstructionAt(history) # {}
    /\ Cardinality(AssistantAt(history)) = 2
    /\ ToolResultAt(history) # {}

----------------------------------------------------------------------------
\* C29: the history is seeded once per run, before the first round: the
\* first request of a run carries exactly the system prompt and the user
\* prompt, these stay the first two messages of the history, and neither
\* prompt appears again later in it.
C29_SeededOnce ==
    requests # <<>> =>
        /\ requests[1].messages = <<SystemMsg, UserMsg>>
        /\ IsPrefix(<<SystemMsg, UserMsg>>, history)
        /\ \A i \in 3..Len(history) : history[i].role # "system" /\ history[i] # UserMsg

\* the first request of a second run, after a first run that grew the history
C29_Witness ==
    /\ run = 2
    /\ pc = "awaitModel"
    /\ Len(requests) = 1
    /\ Len(first.history) > 2

----------------------------------------------------------------------------
\* C30: the tool calls of a response are executed one at a time in response
\* order: when a call is about to be executed the results of the calls before
\* it are the last messages of the history, in the order of the calls, and
\* the step appends the result of that call and of no other.
C30_CallsInOrder ==
    [][ pc = "tools" =>
            /\ Len(history) >= idx
            /\ history[Len(history) - idx + 1] = message
            /\ \A k \in 1..(idx - 1) :
                  /\ history[Len(history) - idx + 1 + k].role = "tool"
                  /\ history[Len(history) - idx + 1 + k].tool_call_id
                        = message.tool_calls[k].id
            /\ history'[Len(history) + 1].role = "tool"
            /\ history'[Len(history) + 1].tool_call_id = message.tool_calls[idx].id
            /\ pc' = "tools" => (Len(history') = Len(history) + 1 /\ idx' = idx + 1)
      ]_vars

\* the second call of a response is about to be executed after the first
\* one's result was appended
C30_Witness ==
    /\ pc = "tools"
    /\ idx = 2
    /\ Last(history).role = "tool"
    /\ Last(history).tool_call_id = message.tool_calls[1].id
    /\ message.tool_calls[2].id # message.tool_calls[1].id


----------------------------------------------------------------------------
\* C31: within a run at most one model request is in flight, and none is
\* issued while a tool call of the current round is still to be executed: a
\* request leaves only when the previous one was answered and the last tool
\* call of the round has its result.
\* requests sent and not yet answered or rejected
InFlight == Len(requests) - Len(respLog)
C31_OneRequestInFlight ==
    [][ /\ InFlight \in {0, 1}
        /\ InFlight' \in {0, 1}
        /\ InFlight' = 1 <=> pc' \in {"awaitModel", "awaitForce"}
        /\ Len(requests') <= Len(requests) + 1
        /\ requests' # requests => Len(respLog') = Len(requests)
        /\ (pc = "tools" /\ idx < Len(message.tool_calls)) =>
              (requests' = requests /\ pc' = "tools")
        /\ pc' = "tools" => InFlight' = 0
      ]_vars

\* the second request is in flight, after both tool calls of round 1 were run
C31_Witness ==
    /\ pc = "awaitModel"
    /\ Len(requests) = 2
    /\ InFlight = 1
    /\ Cardinality(ToolResultAt(history)) = 2

----------------------------------------------------------------------------
\* C32: an exploring response without tool calls appends the assistant
\* message and nothing else, and does not end the run: the next exploring
\* round starts with open tool choice, unless the threshold is crossed or
\* maxRounds is reached, and then the forcing round starts.
C32_FreeTextContinues ==
    [][ ( /\ pc = "awaitModel"
          /\ Len(history') > Len(history)
          /\ history'[Len(history) + 1].role = "assistant"
          /\ history'[Len(history) + 1].tool_calls = <<>> ) =>
            IF ~Crossed(usage'.totalTokens) /\ usage.rounds < config.maxRounds
            THEN /\ pc' = "awaitModel"
                 /\ Len(history') = Len(history) + 1
                 /\ Len(requests') = Len(requests) + 1
                 /\ Last(requests').tool_choice = "auto"
                 /\ Last(requests').messages = history'
                 /\ usage'.rounds = usage.rounds + 1
            ELSE /\ pc' = "awaitForce"
                 /\ history' = Append(Append(history, history'[Len(history) + 1]), ForceMsg)
      ]_vars

\* round 2 was started after a response of round 1 without tool calls
C32_Witness ==
    /\ pc = "awaitModel"
    /\ Len(requests) = 2
    /\ Len(history) = 3
    /\ history[3].role = "assistant"
    /\ history[3].tool_calls = <<>>
    /\ Last(requests).tool_choice = "auto"


----------------------------------------------------------------------------
\* C33: an exploring round that ends without a finish and before maxRounds
\* goes to the forcing round exactly when totalTokens > tokenBudget x
\* forceThresholdRatio, for the ratio the configuration asks for.
\* The engine never reads such a ratio: with 0.5 asked for and 4 tokens of a
\* budget of 5 used, exploration continues.
C33_ConfiguredRatio ==
    [][ (RoundEnds /\ ~finishCalled' /\ usage.rounds < config.maxRounds) =>
            ( pc' = "awaitForce" <=>
                10 * usage'.totalTokens > config.forceThresholdRatio * config.tokenBudget )
      ]_vars

\* C33, as the code has it: an exploring round that ends without a finish
\* and before maxRounds goes to the forcing round exactly when totalTokens >
\* tokenBudget x 0.8, whatever ratio the configuration asks for; the
\* inequality is strict, at exactly 80% of the budget exploration continues.
C33_FixedRatio ==
    [][ (RoundEnds /\ ~finishCalled' /\ usage.rounds < config.maxRounds) =>
            /\ pc' = "awaitForce" <=>
                  10 * usage'.totalTokens > DefaultRatio * config.tokenBudget
            /\ pc' # "awaitForce" =>
                  (pc' = "awaitModel" /\ Last(requests').tool_choice = "auto")
      ]_vars

\* round 2 was started with the totals at exactly 80% of the budget, in a
\* configuration that asks for another ratio
C33_Witness ==
    /\ pc = "awaitModel"
    /\ Len(requests) = 2
    /\ 10 * usage.totalTokens = DefaultRatio * config.tokenBudget
    /\ config.forceThresholdRatio # DefaultRatio


----------------------------------------------------------------------------
\* C34: the round counter is 0 before the first round and never exceeds
\* maxRounds, in any state of the run and in the result.
C34_RoundsWithinMax ==
    /\ usage.rounds \in 0..config.maxRounds
    /\ pc \in {"new", "idle", "exited"} => usage.rounds = 0
    /\ requests = <<>> => usage.rounds = 0
    /\ Returned => result.usage.rounds \in 1..config.maxRounds

\* the forcing request is out after the largest number of exploring rounds
C34_Witness ==
    /\ pc = "awaitForce"
    /\ config.maxRounds = MaxRounds
    /\ usage.rounds = config.maxRounds
    /\ Len(requests) = config.maxRounds + 1

----------------------------------------------------------------------------
\* C36: in every state estimatedCost is the cost of the current cumulative
\* totals, (promptTokens / 1000) x 0.01 + (completionTokens / 1000) x 0.03
\* USD, here in units of 10^-5 USD; the result carries the same.
\* USD per 1000 prompt tokens and per 1000 completion tokens, in cents
InputRate == 1
OutputRate == 3
----------------------------------------------------------------------------
\* C40: if every response received reports total_tokens = prompt_tokens +
\* completion_tokens, then totalTokens = promptTokens + completionTokens in
\* every state; a response without a usage block leaves the three totals and
\* estimatedCost as they were.
ConsistentUsage(log) ==
    \A i \in DOMAIN log :
        (~log[i].failed /\ log[i].response.hasUsage) =>
            log[i].response.usage.total_tokens
                = log[i].response.usage.prompt_tokens
                    + log[i].response.usage.completion_tokens
C40_TotalsAddUp ==
    [][ /\ ConsistentUsage(respLog') =>
              usage'.totalTokens = usage'.promptTokens + usage'.completionTokens
        /\ ( /\ Len(respLog') > Len(respLog)
             /\ ~Last(respLog').failed
             /\ ~Last(respLog').response.hasUsage ) =>
              /\ usage'.totalTokens = usage.totalTokens
              /\ usage'.promptTokens = usage.promptTokens
              /\ usage'.completionTokens = usage.completionTokens
              /\ usage'.estimatedCost = usage.estimatedCost
      ]_vars

\* a response with a usage block, then one without, were received in
\* exploring rounds
C40_Witness ==
    /\ Len(respLog) = 2
    /\ ~respLog[1].failed /\ respLog[1].response.hasUsage
    /\ ~respLog[2].failed /\ ~respLog[2].response.hasUsage
    /\ ExploringRequests = {1, 2}
    /\ usage.totalTokens = respLog[1].response.usage.total_tokens
    /\ usage.totalTokens = usage.promptTokens + usage.completionTokens


----------------------------------------------------------------------------
\* C35: list_context_docs and read_context_doc are among the tools offered
\* in every request exactly when a documentation collaborator is configured;
\* without one, a call of either in an exploring round gets the error "No
\* context handler available" as its tool result and reaches no collaborator.
Offered(req, name) == \E j \in DOMAIN req.tools : req.tools[j] = name
C35_DocToolsNeedHandler ==
    [][ /\ \A i \in DOMAIN requests' : \A t \in DocTools :
              Offered(requests'[i], t) <=> config.contextHandler
        /\ ( /\ pc = "tools"
             /\ message.tool_calls[idx].name \in DocTools
             /\ ~config.contextHandler ) =>
              /\ history'[Len(history) + 1]
                    = ToolErrorMsg(message.tool_calls[idx].id, ErrNoContext)
              /\ Cardinality(ToolResultAt(history')) = Cardinality(ToolResultAt(history)) + 1
              /\ raiseLog' = raiseLog
              /\ result'.error # ErrNoContext
      ]_vars

\* without a handler the tools were not offered, the model called one all
\* the same and was told so
C35_Witness ==
    /\ ~config.contextHandler
    /\ requests # <<>>
    /\ ~Offered(requests[1], "read_context_doc")
    /\ \E j \in ToolResultAt(history) :
          /\ history[j].content = ErrorContent(ErrNoContext)
          /\ \E k \in DOMAIN history[j - 1].tool_calls :
                history[j - 1].tool_calls[k].name = "read_context_doc"

----------------------------------------------------------------------------
\* C37: the result has status complete if and only if a finish_analysis call
\* was dispatched successfully in the run, in an exploring round or in the
\* forcing round.
\* A complete result always has such a call behind it, but not every such
\* call gives a complete result: a finish with the arguments null, or a
\* forced finish followed by a call that raises, ends in status error.
ForcedFinishFirst ==
    /\ forced.received
    /\ forced.response.hasMessage
    /\ forced.response.message.tool_calls # <<>>
    /\ IsFinishCall(forced.response.message.tool_calls[1])
C37_CompleteIffFinish ==
    Returned =>
        ( result.status = "complete" <=> (FinishAckAt(history) # {} \/ ForcedFinishFirst) )

----------------------------------------------------------------------------
\* C38: in every state the history is a well-formed tool conversation: a
\* tool-result message answers a call of the nearest assistant message before
\* it, the results of an assistant message follow it without a gap and in
\* the order of its calls, and a user message or the next assistant message
\* comes only after the last of them.
\* the nearest assistant message before position j (0 if there is none)
AssistantBefore(h, j) ==
    LET before == { a \in AssistantAt(h) : a < j }
    IN  IF before = {} THEN 0 ELSE CHOOSE a \in before : \A b \in before : b <= a
C38_WellFormedConversation ==
    \A j \in DOMAIN history :
        LET a == AssistantBefore(history, j)
        IN  /\ history[j].role = "tool" =>
                  /\ a > 0
                  /\ j - a <= Len(history[a].tool_calls)
                  /\ history[j].tool_call_id = history[a].tool_calls[j - a].id
                  /\ \A l \in (a + 1)..(j - 1) : history[l].role = "tool"
            /\ (history[j].role \in {"user", "assistant"} /\ a > 0) =>
                  j = a + Len(history[a].tool_calls) + 1
            /\ (history[j].role \in {"user", "system"} /\ a = 0) => j <= 2

\* the instruction follows the two tool results of the last exploring round
C38_Witness ==
    /\ pc = "awaitForce"
    /\ Len(history) >= 4
    /\ IsInstruction(Last(history))
    /\ history[Len(history) - 1].role = "tool"
    /\ history[Len(history) - 2].role = "tool"
    /\ Len(history[Len(history) - 3].tool_calls) = 2

----------------------------------------------------------------------------
\* C39: a tool call that fails in an exploring round changes nothing but the
\* history: the token totals, the cost, the finish signal and a payload
\* captured earlier are as before, the round counter moves only when the
\* next round starts, and exactly one tool-result message is appended.
C39_FailureOnlyAppends ==
    [][ ( /\ pc = "tools"
          /\ Len(history') > Len(history)
          /\ IsErrorResult(history'[Len(history) + 1]) ) =>
            /\ usage'.totalTokens = usage.totalTokens
            /\ usage'.promptTokens = usage.promptTokens
            /\ usage'.completionTokens = usage.completionTokens
            /\ usage'.estimatedCost = usage.estimatedCost
            /\ finishCalled' = finishCalled
            /\ analysisResults' = analysisResults
            /\ Cardinality(ToolResultAt(history')) = Cardinality(ToolResultAt(history)) + 1
            /\ pc' = "tools" =>
                  (usage' = usage /\ round' = round /\ Len(history') = Len(history) + 1)
            /\ usage'.rounds # usage.rounds =>
                  (pc' = "awaitModel" /\ idx = Len(message.tool_calls))
            /\ (pc' = "returned" /\ ~analysisResults.isNull) =>
                  (result'.status = "complete" /\ result'.results = analysisResults)
      ]_vars

\* a finish was accepted, the next call of the same response failed, and the
\* run returned the finish's payload
C39_Witness ==
    /\ Returned
    /\ result.status = "complete"
    /\ result.results = PayloadA
    /\ IsErrorResult(Last(history))
    /\ Len(history) - 1 \in FinishAckAt(history)

=============================================================================
